---- MODULE Spec2Model ----
(***************************************************************************)
(* A model of monkeypatch.py: the namespace of the patched objects, the    *)
(* Patch Records (TemporaryPatcher) and the pending decorators, with one   *)
(* action per library call.                                                *)
(***************************************************************************)
EXTENDS Integers, Sequences, FiniteSets, TLC

VARIABLES
    ns,          \* ns[obj][attr]: the __dict__ entry of obj under attr, or Absent
    patchers,    \* the TemporaryPatcher objects constructed so far
    decorators,  \* the decorators returned in deferred mode and not yet dropped
    last,        \* the outcome of the latest call (exception, return value, call trace)
    client_target,  \* the Target this client program patches
    client_member,  \* the Member Name it patches there
    threads      \* the two threads of the unsynchronized use (SpecThreads only)

vars == <<ns, patchers, decorators, last, client_target, client_member, threads>>

(***************************************************************************)
(* Bounds of the model.                                                    *)
(***************************************************************************)
\* Patch Records plus pending decorators a behaviour creates.
MaxHandles == 2

(***************************************************************************)
(* Python values.  Every value is a record with a tag.                     *)
(***************************************************************************)
\* no entry in a __dict__ (not a Python value)
Absent == [tag |-> "absent"]

PyNone == [tag |-> "None"]

PyInt(n) == [tag |-> "int", v |-> n]

Fn(name) == [tag |-> "function", name |-> name]

\* a django cached_property descriptor object; its func slot is ns[obj]["func"]
CachedPropertyObject(obj) == [tag |-> "cached_property", obj |-> obj]

PatcherRef(i) == [tag |-> "TemporaryPatcher", id |-> i]

DecoratorRef(j) == [tag |-> "decorator", id |-> j]

\* django.utils.functional.curry(wrapper_function, u, o): a partial application,
\* a new function object named _curried
curry(wrapper_function, u, o) ==
    [tag |-> "curried", wrapper |-> wrapper_function, u |-> u, o |-> o,
     name |-> "_curried"]

\* the closure wrapper_with_before that before.decorator builds
before_closure(before_function, original_function) ==
    [tag |-> "closure", wrapper |-> "wrapper_with_before",
     u |-> before_function, o |-> original_function,
     name |-> "wrapper_with_before"]

\* south.utils.memoize(function): a wrapper that carries an _invalidate hook
memoize(function) == [tag |-> "memoized", f |-> function]

(***************************************************************************)
(* The objects of the program under patch.                                 *)
(***************************************************************************)
Classes == {"object", "Root", "Base", "Derived", "Sibling", "module",
            "cached_property"}

Objects == Classes \cup {"m", "area_descriptor"}

\* the objects a caller hands to the library
Targets == {"Base", "Derived", "m"}

MemberNames == {"greet", "area", "compute", "new_fn"}

Names == MemberNames \cup {"func"}

\* the user callables handed to the combinators
UserFns == {Fn("log"), Fn("inc_orig")}

\* a replacement that is a plain value
PlainValues == {PyInt(7)}

\* what a caller passes as third argument: None (deferred), a callable, a value
Replacements == {PyNone} \cup UserFns \cup PlainValues

\* the positional arguments of a call of a member
CallArgs == {<<PyInt(5)>>}

\* the exception a with-block ends with ("" for a normal end)
BlockExits == {"", "Exception"}

\* cls.mro()
mro(cls) ==
    CASE cls = "Derived" -> <<"Derived", "Base", "Root", "object">>
      [] cls = "Sibling" -> <<"Sibling", "Base", "Root", "object">>
      [] cls = "Base" -> <<"Base", "Root", "object">>
      [] cls = "Root" -> <<"Root", "object">>
      [] cls = "module" -> <<"module", "object">>
      [] cls = "cached_property" -> <<"cached_property", "object">>
      [] OTHER -> <<"object">>

\* obj.__class__ of an object that is not a class
class_of(obj) ==
    CASE obj = "m" -> "module"
      [] obj = "area_descriptor" -> "cached_property"
      [] OTHER -> "object"

NoEntries == [n \in Names |-> Absent]

InitNs ==
    [o \in Objects |->
        CASE o = "Root" -> [NoEntries EXCEPT !["greet"] = Fn("greet_root")]
          [] o = "Base" -> [NoEntries EXCEPT !["greet"] = Fn("greet"),
                                             !["area"] = CachedPropertyObject("area_descriptor")]
          [] o = "m" -> [NoEntries EXCEPT !["compute"] = Fn("compute")]
          [] o = "area_descriptor" -> [NoEntries EXCEPT !["func"] = Fn("area")]
          [] OTHER -> NoEntries]

(***************************************************************************)
(* Attribute access.                                                       *)
(***************************************************************************)
\* a get_obj_mro that lists the classes base-first
get_obj_mro_base_first(obj) ==
    LET order == IF obj \in Classes THEN mro(obj) ELSE mro(class_of(obj))
    IN [k \in 1..Len(order) |-> order[Len(order) + 1 - k]]

get_obj_mro(obj) ==
    IF obj \in Classes THEN mro(obj) ELSE mro(class_of(obj))

RECURSIVE first_in_dicts(_, _, _)
\* the loop of get_dict_attr: the first c.__dict__[attr] along cs, or Absent
first_in_dicts(nsx, cs, attr) ==
    IF cs = <<>> THEN Absent
    ELSE IF nsx[Head(cs)][attr] # Absent THEN nsx[Head(cs)][attr]
    ELSE first_in_dicts(nsx, Tail(cs), attr)

\* get_dict_attr(obj, attr); Absent stands for the AttributeError it raises
get_dict_attr(nsx, obj, attr) ==
    first_in_dicts(nsx, <<obj>> \o get_obj_mro(obj), attr)

\* the builtin getattr(obj, attr) on a class, a module or a descriptor object:
\* the object's own entry, then its classes'; Absent stands for AttributeError
getattr(nsx, obj, attr) ==
    first_in_dicts(nsx, <<obj>> \o get_obj_mro(obj), attr)

\* a setattr that writes the __dict__ the attribute was found in
setattr_where_found(nsx, obj, attr, value) ==
    LET order == <<obj>> \o get_obj_mro(obj)
        holders == {k \in 1..Len(order) : nsx[order[k]][attr] # Absent}
    IN IF holders = {} THEN [nsx EXCEPT ![obj][attr] = value]
       ELSE [nsx EXCEPT ![order[CHOOSE k \in holders :
                                   \A l \in holders : k <= l]][attr] = value]

\* the builtin setattr(obj, attr, value): always the object's own __dict__
setattr(nsx, obj, attr, value) ==
    [nsx EXCEPT ![obj][attr] = value]

\* the builtin dir(obj): the names of the object and of its classes
dir(nsx, obj) ==
    {n \in Names : getattr(nsx, obj, n) # Absent}

isinstance_cached_property(v) == v.tag = "cached_property"

\* hasattr(v, '__call__')
is_callable(v) == v.tag \in {"function", "curried", "closure", "memoized"}

\* hasattr(v, '__name__')
has_name(v) == v.tag \in {"function", "curried", "closure"}

\* hasattr(v, '_invalidate')
has_invalidate(v) == v.tag = "memoized"

(***************************************************************************)
(* Calling a value.  An outcome is the exception raised ("" for none), the *)
(* value returned and the trace of the primitive functions that ran, each  *)
(* with the positional arguments it received.                              *)
(***************************************************************************)
Returned(value, trace) == [exc |-> "", ret |-> value, trace |-> trace]

Raised(exc, trace) == [exc |-> exc, ret |-> PyNone, trace |-> trace]

Event(name, args) == [fn |-> name, args |-> args]

\* the functions the patched program defines: compute(x) returns x * 2, the
\* others add a constant of their own to their first argument
original_body(name, args) ==
    IF args = <<>> \/ args[1].tag # "int"
    THEN Raised("TypeError", <<Event(name, args)>>)
    ELSE Returned(PyInt(CASE name = "compute" -> args[1].v * 2
                          [] name = "greet" -> args[1].v + 100
                          [] name = "greet_root" -> args[1].v + 200
                          [] OTHER -> args[1].v + 300),
                  <<Event(name, args)>>)

RECURSIVE call(_, _)

\* wrapper_with_before(*args): before_function(*args); return original_function(*args)
wrapper_with_before(before_function, original_function, args) ==
    LET b == call(before_function, args)
        r == call(original_function, args)
    IN IF b.exc # "" THEN b
       ELSE [r EXCEPT !.trace = b.trace \o r.trace]

\* a wrapper_with_after that runs the after-function first
wrapper_with_after_first(external_after_function, original_function, args) ==
    LET a == call(external_after_function, args)
        result == call(original_function, args)
    IN IF a.exc # "" THEN a
       ELSE IF result.exc # "" THEN Raised(result.exc, a.trace \o result.trace)
       ELSE Returned(result.ret, a.trace \o result.trace)

wrapper_with_after(external_after_function, original_function, args) ==
    LET result == call(original_function, args)
        a == call(external_after_function, args)
    IN IF result.exc # "" THEN result
       ELSE IF a.exc # "" THEN Raised(a.exc, result.trace \o a.trace)
       ELSE Returned(result.ret, result.trace \o a.trace)

wrapper_with_patch(external_patch_function, original_function, args) ==
    call(external_patch_function, <<original_function>> \o args)

wrapper_with_insert(external_patch_function, original_function, args) ==
    call(external_patch_function, args)

wrapper_with_modify(external_modify_function, original_function, args) ==
    LET result == call(original_function, args)
        modified == call(external_modify_function, <<result.ret>> \o args)
    IN IF result.exc # "" THEN result
       ELSE [modified EXCEPT !.trace = result.trace \o modified.trace]

\* a user callable: log(*args) returns 42; inc_orig(orig, *args) returns
\* orig(*args) + 1
user_body(name, args) ==
    CASE name = "log" -> Returned(PyInt(42), <<Event("log", args)>>)
      [] OTHER ->
            IF args = <<>>
            THEN Raised("TypeError", <<Event("inc_orig", args)>>)
            ELSE LET r == call(args[1], Tail(args))
                     trace == <<Event("inc_orig", args)>> \o r.trace
                 IN IF r.exc # "" THEN Raised(r.exc, trace)
                    ELSE IF r.ret.tag # "int" THEN Raised("TypeError", trace)
                    ELSE Returned(PyInt(r.ret.v + 1), trace)

\* f(*args): a function runs its body, a curried or closed-over wrapper runs
\* the wrapper with its two bound arguments first, anything else is not callable
call(f, args) ==
    CASE f.tag = "function" /\ f.name \in {"log", "inc_orig"} ->
            user_body(f.name, args)
      [] f.tag = "function" /\ f.name \notin {"log", "inc_orig"} ->
            original_body(f.name, args)
      [] f.tag \in {"curried", "closure"} /\ f.wrapper = "wrapper_with_before" ->
            wrapper_with_before(f.u, f.o, args)
      [] f.tag \in {"curried", "closure"} /\ f.wrapper = "wrapper_with_after" ->
            wrapper_with_after(f.u, f.o, args)
      [] f.tag \in {"curried", "closure"} /\ f.wrapper = "wrapper_with_patch" ->
            wrapper_with_patch(f.u, f.o, args)
      [] f.tag \in {"curried", "closure"} /\ f.wrapper = "wrapper_with_insert" ->
            wrapper_with_insert(f.u, f.o, args)
      [] f.tag \in {"curried", "closure"} /\ f.wrapper = "wrapper_with_modify" ->
            wrapper_with_modify(f.u, f.o, args)
      [] f.tag = "memoized" -> call(f.f, args)
      [] OTHER -> Raised("TypeError", <<>>)

(***************************************************************************)
(* The library.  Each call is one action; `last` records how it ended.     *)
(***************************************************************************)
\* prev_op and prev_self are history for the properties: the call before an
\* __enter__ or __exit__, when that was an __exit__
Outcome(op, self, exc, ret, trace) ==
    [op |-> op, self |-> self, exc |-> exc, ret |-> ret, trace |-> trace,
     prev_op |-> "", prev_self |-> PyNone]

ScopeOutcome(op, self, exc) ==
    [Outcome(op, self, exc, PyNone, <<>>)
        EXCEPT !.prev_op = IF last.op = "__exit__" THEN last.op ELSE "",
               !.prev_self = IF last.op = "__exit__" THEN last.self ELSE PyNone]

\* the call raised: nothing is returned
Raise(op, exc) == last' = Outcome(op, PyNone, exc, PyNone, <<>>)

Return(op, ret) == last' = Outcome(op, PyNone, "", ret, <<>>)

Handles == Len(patchers) + Len(decorators)

\* isinstance(class_or_instance, cached_property), of an object
is_cached_property_object(obj) ==
    obj \notin Classes /\ class_of(obj) = "cached_property"

\* History, for the properties only: what a member is to its callers, a
\* cached_property being what its descriptor currently computes with.
Behaviour(nsx, obj, attr) ==
    LET v == getattr(nsx, obj, attr)
    IN IF v.tag = "cached_property"
       THEN [tag |-> "cached_property", obj |-> v.obj, func |-> nsx[v.obj]["func"]]
       ELSE v

\* get_decorator_or_context_object, from the lookup of the original to the
\* choice of memoizing: where the patch goes and what it wraps
resolve(nsx, class_or_instance, method_name) ==
    LET found == get_dict_attr(nsx, class_or_instance, method_name)
        cached == isinstance_cached_property(found)
        original_function == IF cached THEN getattr(nsx, found.obj, "func") ELSE found
    IN [raised |-> found = Absent,
        class_or_instance |-> IF cached THEN found.obj ELSE class_or_instance,
        method_name |-> IF cached THEN "func" ELSE method_name,
        original_function |-> original_function,
        memoize_the_replacement |->
            has_name(original_function) /\ has_invalidate(original_function)]

\* a TemporaryPatcher that looks through a composition for the function it wraps
TemporaryPatcher_unwrapping(nsx, class_or_instance, method_name, replacement_function) ==
    LET found == getattr(nsx, class_or_instance, method_name)
    IN [class_or_instance |-> class_or_instance,
        method_name |-> method_name,
        original_function |-> IF found.tag = "curried" THEN found.o ELSE found,
        replacement_function |-> replacement_function,
        pre |-> Behaviour(ns, client_target, client_member)]

\* TemporaryPatcher.__init__: the fields of the new object.  pre is history
\* for the properties: the behaviour of the client's member before the call.
TemporaryPatcher(nsx, class_or_instance, method_name, replacement_function) ==
    [class_or_instance |-> class_or_instance,
     method_name |-> method_name,
     original_function |-> getattr(nsx, class_or_instance, method_name),
     replacement_function |-> replacement_function,
     pre |-> Behaviour(ns, client_target, client_member)]

\* what get_decorator_or_context_object hands to TemporaryPatcher
replacement_for(r, wrapper_function, external_replacement_function) ==
    LET replacement == IF r.memoize_the_replacement
                       THEN memoize(external_replacement_function)
                       ELSE external_replacement_function
    IN IF is_callable(replacement)
       THEN curry(wrapper_function, replacement, r.original_function)
       ELSE replacement

\* get_decorator_or_context_object, called by op with nsx the namespaces as
\* op left them
get_decorator_or_context_object(op, nsx, class_or_instance, method_name, wrapper_function, external_replacement_function) ==
    LET r == resolve(nsx, class_or_instance, method_name)
    IN IF r.raised
       THEN /\ Raise(op, "AttributeError")
            /\ ns' = nsx
            /\ UNCHANGED <<patchers, decorators, threads, client_target, client_member>>
       ELSE IF external_replacement_function = PyNone
       THEN /\ Handles < MaxHandles
            /\ decorators' = Append(decorators,
                  [kind |-> "final_decorator",
                   class_or_instance |-> r.class_or_instance,
                   method_name |-> r.method_name,
                   wrapper_function |-> wrapper_function,
                   original_function |-> r.original_function,
                   memoize_the_replacement |-> r.memoize_the_replacement])
            /\ ns' = nsx
            /\ Return(op, DecoratorRef(Len(decorators) + 1))
            /\ UNCHANGED <<patchers, threads, client_target, client_member>>
       ELSE LET p == TemporaryPatcher(nsx, r.class_or_instance, r.method_name,
                        replacement_for(r, wrapper_function,
                                        external_replacement_function))
            IN /\ Handles < MaxHandles
               /\ patchers' = Append(patchers, p)
               /\ ns' = setattr(nsx, p.class_or_instance, p.method_name,
                                p.replacement_function)
               /\ Return(op, PatcherRef(Len(patchers) + 1))
               /\ UNCHANGED <<decorators, threads, client_target, client_member>>

before(target_class_or_module, target_method_name) ==
    LET original_function == getattr(ns, target_class_or_module, target_method_name)
    IN IF original_function = Absent
       THEN /\ Raise("before", "AttributeError")
            /\ UNCHANGED <<ns, patchers, decorators, threads, client_target, client_member>>
       ELSE /\ Handles < MaxHandles
            /\ decorators' = Append(decorators,
                  [kind |-> "decorator",
                   class_or_instance |-> target_class_or_module,
                   method_name |-> target_method_name,
                   wrapper_function |-> "wrapper_with_before",
                   original_function |-> original_function,
                   memoize_the_replacement |-> FALSE])
            /\ Return("before", DecoratorRef(Len(decorators) + 1))
            /\ UNCHANGED <<ns, patchers, threads, client_target, client_member>>

\* the decorator that before returned, applied to before_function
decorator(j, before_function) ==
    /\ j \in DOMAIN decorators
    /\ decorators[j].kind = "decorator"
    /\ LET d == decorators[j]
           wrapper == before_closure(before_function, d.original_function)
       IN /\ ns' = setattr(ns, d.class_or_instance, d.method_name, wrapper)
          /\ Return("decorator", wrapper)
    /\ UNCHANGED <<patchers, decorators, threads, client_target, client_member>>

after(class_or_instance, method_name, bare_replacement_function) ==
    get_decorator_or_context_object("after", ns, class_or_instance, method_name,
        "wrapper_with_after", bare_replacement_function)

patch(class_or_instance, method_name, bare_replacement_function) ==
    get_decorator_or_context_object("patch", ns, class_or_instance, method_name,
        "wrapper_with_patch", bare_replacement_function)

\* "..." % args: the exception of a format string with `specifiers` conversions
\* applied to `supplied` arguments ("" when they match)
percent_format(specifiers, supplied) ==
    IF specifiers = supplied THEN "" ELSE "TypeError"

\* the conversions of "%s.%s already exists, refusing to overwrite it"
ExistsMessageSpecifiers == 2

\* the arguments the % of insert's raise statement is given: class_or_instance
\* alone, method_name being the second argument of KeyError
ExistsMessageSupplied == 1

\* the exception of insert's raise statement: the message is formatted first
already_exists_error ==
    IF percent_format(ExistsMessageSpecifiers, ExistsMessageSupplied) # ""
    THEN percent_format(ExistsMessageSpecifiers, ExistsMessageSupplied)
    ELSE "KeyError"

insert(class_or_instance, method_name, bare_inserted_function) ==
    IF method_name \in dir(ns, class_or_instance)
    THEN /\ Raise("insert", already_exists_error)
         /\ UNCHANGED <<ns, patchers, decorators, threads, client_target, client_member>>
    ELSE get_decorator_or_context_object("insert",
            setattr(ns, class_or_instance, method_name, PyNone),
            class_or_instance, method_name,
            "wrapper_with_insert", bare_inserted_function)

modify_return_value(class_or_instance, method_name, bare_replacement_function) ==
    get_decorator_or_context_object("modify_return_value", ns, class_or_instance,
        method_name, "wrapper_with_modify", bare_replacement_function)

\* v.__name__ = name, of a function object
renamed(v, name) ==
    IF v.tag \in {"curried", "closure"} THEN [v EXCEPT !.name = name] ELSE v

\* the decorator that get_decorator_or_context_object returned, applied
final_decorator(j, external_replacement_function) ==
    /\ j \in DOMAIN decorators
    /\ decorators[j].kind = "final_decorator"
    /\ LET d == decorators[j]
           curried == curry(d.wrapper_function, external_replacement_function,
                            d.original_function)
           actual_final_replacement ==
               IF d.memoize_the_replacement THEN memoize(curried) ELSE curried
       IN IF is_cached_property_object(d.class_or_instance)
          THEN IF has_name(d.original_function)
               THEN /\ ns' = setattr(ns, d.class_or_instance, d.method_name,
                                renamed(actual_final_replacement,
                                        d.original_function.name))
                    /\ Return("final_decorator", external_replacement_function)
               ELSE \* original_function.__name__ raises, after the setattr
                    /\ ns' = setattr(ns, d.class_or_instance, d.method_name,
                                     actual_final_replacement)
                    /\ Raise("final_decorator", "AttributeError")
          ELSE /\ ns' = setattr(ns, d.class_or_instance, d.method_name,
                                actual_final_replacement)
               /\ Return("final_decorator", external_replacement_function)
    /\ UNCHANGED <<patchers, decorators, threads, client_target, client_member>>

\* an __enter__ that applies the patch
enter_applying(i) ==
    /\ i \in DOMAIN patchers
    /\ ns' = setattr(ns, patchers[i].class_or_instance, patchers[i].method_name,
                     patchers[i].replacement_function)
    /\ last' = ScopeOutcome("__enter__", PatcherRef(i), "")
    /\ UNCHANGED <<patchers, decorators, threads, client_target, client_member>>

TemporaryPatcher__enter__(i) ==
    /\ i \in DOMAIN patchers
    /\ last' = ScopeOutcome("__enter__", PatcherRef(i), "")
    /\ UNCHANGED <<ns, patchers, decorators, threads, client_target, client_member>>

\* an __exit__ that swaps: it keeps what it replaces as the next original
exit_swapping(i, exc_type) ==
    /\ i \in DOMAIN patchers
    /\ ns' = setattr(ns, patchers[i].class_or_instance, patchers[i].method_name,
                     patchers[i].original_function)
    /\ patchers' = [patchers EXCEPT ![i].original_function =
                        getattr(ns, patchers[i].class_or_instance,
                                patchers[i].method_name)]
    /\ last' = ScopeOutcome("__exit__", PatcherRef(i), exc_type)
    /\ UNCHANGED <<decorators, threads, client_target, client_member>>

\* an __exit__ that restores only when the block ended normally
exit_unless_exception(i, exc_type) ==
    /\ i \in DOMAIN patchers
    /\ ns' = IF exc_type = ""
             THEN setattr(ns, patchers[i].class_or_instance, patchers[i].method_name,
                          patchers[i].original_function)
             ELSE ns
    /\ last' = ScopeOutcome("__exit__", PatcherRef(i), exc_type)
    /\ UNCHANGED <<patchers, decorators, threads, client_target, client_member>>

\* __exit__(exc_type, exc_val, exc_tb) returns None: the block's exception,
\* if any, goes on to the caller
TemporaryPatcher__exit__(i, exc_type) ==
    /\ i \in DOMAIN patchers
    /\ ns' = setattr(ns, patchers[i].class_or_instance, patchers[i].method_name,
                     patchers[i].original_function)
    /\ last' = ScopeOutcome("__exit__", PatcherRef(i), exc_type)
    /\ UNCHANGED <<patchers, decorators, threads, client_target, client_member>>

\* what a call of the member runs: the attribute, or for a cached_property
\* the func of its descriptor
called_value(nsx, obj, attr) ==
    LET v == getattr(nsx, obj, attr)
    IN IF v.tag = "cached_property" THEN getattr(nsx, v.obj, "func") ELSE v

\* the program calls class_or_instance.method_name(*args)
call_member(class_or_instance, method_name, args) ==
    /\ IF getattr(ns, class_or_instance, method_name) = Absent
       THEN Raise("call", "AttributeError")
       ELSE LET r == call(called_value(ns, class_or_instance, method_name), args)
            IN last' = Outcome("call", PyNone, r.exc, r.ret, r.trace)
    /\ UNCHANGED <<ns, patchers, decorators, threads, client_target, client_member>>

NoThreads == <<>>

Init ==
    /\ ns = InitNs
    /\ patchers = <<>>
    /\ decorators = <<>>
    /\ last = Outcome("", PyNone, "", PyNone, <<>>)
    /\ client_target \in Targets
    /\ client_member \in MemberNames
    /\ threads = NoThreads

Next ==
    \/ before(client_target, client_member)
    \/ \E r \in Replacements : after(client_target, client_member, r)
    \/ \E r \in Replacements : patch(client_target, client_member, r)
    \/ \E r \in Replacements : insert(client_target, client_member, r)
    \/ \E r \in Replacements : modify_return_value(client_target, client_member, r)
    \/ \E j \in 1..MaxHandles, u \in UserFns : decorator(j, u)
    \/ \E j \in 1..MaxHandles, u \in UserFns : final_decorator(j, u)
    \/ \E i \in 1..MaxHandles : TemporaryPatcher__enter__(i)
    \/ \E i \in 1..MaxHandles, e \in BlockExits : TemporaryPatcher__exit__(i, e)
    \/ \E a \in CallArgs : call_member(client_target, client_member, a)

Spec == Init /\ [][Next]_vars

(***************************************************************************)
(* Two threads, each running                                               *)
(*     with <after | patch | modify_return_value>(target, member, u): ...  *)
(* on the same pair with no lock.  A thread can be preempted between any   *)
(* two attribute reads or writes, so each read and each write is a step.   *)
(***************************************************************************)
ThreadIds == {1, 2}

ThreadWrappers == {"wrapper_with_after", "wrapper_with_patch", "wrapper_with_modify"}

\* each thread passes a function object of its own
thread_function(i) == IF i = 1 THEN Fn("log") ELSE Fn("inc_orig")

\* overwritten is history for the properties: another thread wrote the slot
\* while this thread's replacement was installed and its scope not yet left
InitThread ==
    [pc |-> "start",
     class_or_instance |-> "",
     method_name |-> "",
     original_function |-> PyNone,
     replacement_function |-> PyNone,
     overwritten |-> FALSE]

InScope(t) == t.pc \in {"enter", "body"}

\* the other threads, after thread i has written value to the slot (obj, attr)
Overwriting(i, obj, attr, value) ==
    [j \in ThreadIds |->
        IF j # i /\ InScope(threads[j]) /\ threads[j].class_or_instance = obj
           /\ threads[j].method_name = attr
           /\ threads[j].replacement_function # value
        THEN [threads[j] EXCEPT !.overwritten = TRUE]
        ELSE threads[j]]

\* get_decorator_or_context_object up to the call of TemporaryPatcher
thread_resolve(i, wrapper_function) ==
    /\ threads[i].pc = "start"
    /\ LET r == resolve(ns, client_target, client_member)
       IN IF r.raised
          THEN threads' = [threads EXCEPT ![i].pc = "raised"]
          ELSE threads' = [threads EXCEPT
                  ![i].pc = "construct",
                  ![i].class_or_instance = r.class_or_instance,
                  ![i].method_name = r.method_name,
                  ![i].replacement_function =
                      replacement_for(r, wrapper_function, thread_function(i))]
    /\ UNCHANGED <<ns, patchers, decorators, last, client_target, client_member>>

\* TemporaryPatcher.__init__: self.original_function = getattr(...)
thread_capture(i) ==
    /\ threads[i].pc = "construct"
    /\ threads' = [threads EXCEPT
          ![i].pc = "install",
          ![i].original_function =
              getattr(ns, threads[i].class_or_instance, threads[i].method_name)]
    /\ UNCHANGED <<ns, patchers, decorators, last, client_target, client_member>>

\* an install that writes only if the slot still holds what was captured
thread_install_if_unchanged(i) ==
    /\ threads[i].pc = "install"
    /\ ns' = IF getattr(ns, threads[i].class_or_instance, threads[i].method_name)
                  = threads[i].original_function
             THEN setattr(ns, threads[i].class_or_instance,
                          threads[i].method_name,
                          threads[i].replacement_function)
             ELSE ns
    /\ threads' = [threads EXCEPT ![i].pc = "enter"]
    /\ UNCHANGED <<patchers, decorators, last, client_target, client_member>>

\* TemporaryPatcher.__init__: setattr(..., self.replacement_function)
thread_install(i) ==
    /\ threads[i].pc = "install"
    /\ ns' = setattr(ns, threads[i].class_or_instance, threads[i].method_name,
                     threads[i].replacement_function)
    /\ threads' = [Overwriting(i, threads[i].class_or_instance,
                               threads[i].method_name,
                               threads[i].replacement_function)
                      EXCEPT ![i].pc = "enter"]
    /\ UNCHANGED <<patchers, decorators, last, client_target, client_member>>

\* TemporaryPatcher.__enter__
thread_enter(i) ==
    /\ threads[i].pc = "enter"
    /\ threads' = [threads EXCEPT ![i].pc = "body"]
    /\ UNCHANGED <<ns, patchers, decorators, last, client_target, client_member>>

\* TemporaryPatcher.__exit__, when the block has ended
thread_exit(i, exc_type) ==
    /\ threads[i].pc = "body"
    /\ ns' = setattr(ns, threads[i].class_or_instance, threads[i].method_name,
                     threads[i].original_function)
    /\ threads' = [Overwriting(i, threads[i].class_or_instance,
                               threads[i].method_name,
                               threads[i].original_function)
                      EXCEPT ![i].pc = "done"]
    /\ last' = Outcome("__exit__", PatcherRef(i), exc_type, PyNone, <<>>)
    /\ UNCHANGED <<patchers, decorators, client_target, client_member>>

InitThreads ==
    /\ ns = InitNs
    /\ patchers = <<>>
    /\ decorators = <<>>
    /\ last = Outcome("", PyNone, "", PyNone, <<>>)
    /\ client_target \in Targets
    /\ client_member \in MemberNames
    /\ threads = [i \in ThreadIds |-> InitThread]

NextThreads ==
    \/ \E i \in ThreadIds, w \in ThreadWrappers : thread_resolve(i, w)
    \/ \E i \in ThreadIds : thread_capture(i)
    \/ \E i \in ThreadIds : thread_install(i)
    \/ \E i \in ThreadIds : thread_enter(i)
    \/ \E i \in ThreadIds, e \in BlockExits : thread_exit(i, e)

SpecThreads == InitThreads /\ [][NextThreads]_vars

(***************************************************************************)
(* The properties.                                                         *)
(***************************************************************************)
\* the callable a call of the client's member runs, or Absent
MemberNow(nsx) ==
    LET b == Behaviour(nsx, client_target, client_member)
    IN IF b.tag = "cached_property" THEN b.func ELSE b

ScopedWrappers == {"wrapper_with_after", "wrapper_with_patch", "wrapper_with_modify"}

IsComposed(v, wrappers) == v.tag = "curried" /\ v.wrapper \in wrappers

\* C1: after, patch and modify_return_value in immediate mode with a callable
\* replacement u, on a member that resolves: the call leaves the member being
\* the composition of u with the pre-patch original, entering the scope keeps
\* it, and leaving the scope while that composition is still the member, with
\* or without an exception, leaves the member behaving as before the patch,
\* the block's exception going on to the caller.
C1_ScopedPatchRestoresOriginal ==
    [][/\ \A r \in UserFns :
            /\ after(client_target, client_member, r) /\ MemberNow(ns) # Absent
                  => MemberNow(ns') = curry("wrapper_with_after", r, MemberNow(ns))
            /\ patch(client_target, client_member, r) /\ MemberNow(ns) # Absent
                  => MemberNow(ns') = curry("wrapper_with_patch", r, MemberNow(ns))
            /\ modify_return_value(client_target, client_member, r)
                  /\ MemberNow(ns) # Absent
                  => MemberNow(ns') = curry("wrapper_with_modify", r, MemberNow(ns))
       /\ \A i \in DOMAIN patchers :
            TemporaryPatcher__enter__(i) => MemberNow(ns') = MemberNow(ns)
       /\ \A i \in DOMAIN patchers, e \in BlockExits :
            /\ TemporaryPatcher__exit__(i, e)
            /\ IsComposed(patchers[i].replacement_function, ScopedWrappers)
            /\ MemberNow(ns) = patchers[i].replacement_function
            => /\ Behaviour(ns', client_target, client_member) = patchers[i].pre
               /\ last'.exc = e
      ]_vars

\* C1 witness: with patch(m, 'compute', inc_orig) left by an exception:
\* the replacement computes 11 for 5, the member computes 10 again.
C1_Witness ==
    /\ client_target = "m"
    /\ client_member = "compute"
    /\ last.op = "__exit__"
    /\ last.exc = "Exception"
    /\ patchers[last.self.id].replacement_function
          = curry("wrapper_with_patch", Fn("inc_orig"), Fn("compute"))
    /\ call(patchers[last.self.id].replacement_function, <<PyInt(5)>>).ret = PyInt(11)
    /\ call(MemberNow(ns), <<PyInt(5)>>).ret = PyInt(10)

\* the table of the combinators: the outcome of a call with arguments a of the
\* composition of u and o
TableOutcome(wrapper, u, o, a) ==
    CASE wrapper = "wrapper_with_before" ->
            Returned(call(o, a).ret, call(u, a).trace \o call(o, a).trace)
      [] wrapper = "wrapper_with_after" ->
            Returned(call(o, a).ret, call(o, a).trace \o call(u, a).trace)
      [] wrapper = "wrapper_with_patch" ->
            Returned(call(u, <<o>> \o a).ret, call(u, <<o>> \o a).trace)
      [] wrapper = "wrapper_with_insert" ->
            Returned(call(u, a).ret, call(u, a).trace)
      [] OTHER ->
            Returned(call(u, <<call(o, a).ret>> \o a).ret,
                     call(o, a).trace \o call(u, <<call(o, a).ret>> \o a).trace)

\* the calls of u and of o that the table names return normally
TableCallsReturn(wrapper, u, o, a) ==
    CASE wrapper \in {"wrapper_with_before", "wrapper_with_after"} ->
            call(u, a).exc = "" /\ call(o, a).exc = ""
      [] wrapper = "wrapper_with_patch" -> call(u, <<o>> \o a).exc = ""
      [] wrapper = "wrapper_with_insert" -> call(u, a).exc = ""
      [] OTHER ->
            call(o, a).exc = "" /\ call(u, <<call(o, a).ret>> \o a).exc = ""

C3_InsertCollisionRaisesKeyError ==
    [][\A r \in Replacements :
          insert(client_target, client_member, r)
              /\ client_member \in dir(ns, client_target)
          => /\ last'.exc = "KeyError"
             /\ ns' = ns
             /\ patchers' = patchers
             /\ decorators' = decorators
      ]_vars

\* C4: leaving the scope of an immediate-mode insert, while the inserted
\* callable is still the member, undoes the insertion: the name is on the
\* Target no more, so that a later insert of it would not collide.
C4_ScopedInsertIsUndone ==
    [][\A i \in DOMAIN patchers, e \in BlockExits :
          /\ TemporaryPatcher__exit__(i, e)
          /\ IsComposed(patchers[i].replacement_function, {"wrapper_with_insert"})
          /\ MemberNow(ns) = patchers[i].replacement_function
          => client_member \notin dir(ns', client_target)
      ]_vars

\* C5: in deferred mode the combinator call leaves an existing member as it
\* was and creates no Patch Record; the decorator it returned, applied to u,
\* installs the composition of u and the original, creates no Patch Record,
\* and returns u itself.
C5_DeferredReturnsUserCallable ==
    [][/\ (\/ before(client_target, client_member)
           \/ after(client_target, client_member, PyNone)
           \/ patch(client_target, client_member, PyNone)
           \/ insert(client_target, client_member, PyNone)
           \/ modify_return_value(client_target, client_member, PyNone))
          /\ MemberNow(ns) # Absent
          => MemberNow(ns') = MemberNow(ns) /\ patchers' = patchers
       /\ \A j \in DOMAIN decorators, u \in UserFns :
            (decorator(j, u) \/ final_decorator(j, u)) /\ last'.exc = ""
            => /\ MemberNow(ns').tag \in {"curried", "closure"}
               /\ MemberNow(ns').wrapper = decorators[j].wrapper_function
               /\ MemberNow(ns').u = u
               /\ MemberNow(ns').o = decorators[j].original_function
               /\ patchers' = patchers
               /\ last'.ret = u
      ]_vars

\* the Target's own namespace, then its ancestors, most-derived first
ResolutionOrder(obj) ==
    IF obj \in Classes THEN mro(obj) ELSE <<obj>> \o mro(class_of(obj))

Definers(nsx, obj, attr) ==
    {k \in 1..Len(ResolutionOrder(obj)) : nsx[ResolutionOrder(obj)[k]][attr] # Absent}

\* the first definition along the resolution order; of a cached_property, the
\* function its descriptor holds
ExpectedOriginal(nsx, obj, attr) ==
    LET first == CHOOSE k \in Definers(nsx, obj, attr) :
                      \A l \in Definers(nsx, obj, attr) : k <= l
        d == nsx[ResolutionOrder(obj)[first]][attr]
    IN IF d.tag = "cached_property" THEN nsx[d.obj]["func"] ELSE d

\* one step A of after, patch or modify_return_value with third argument r
C6_Step(A, r) ==
    A => IF Definers(ns, client_target, client_member) = {}
         THEN /\ last'.exc = "AttributeError"
              /\ ns' = ns
              /\ patchers' = patchers
              /\ decorators' = decorators
         ELSE /\ last'.exc = ""
              /\ r = PyNone =>
                    decorators'[Len(decorators')].original_function
                        = ExpectedOriginal(ns, client_target, client_member)
              /\ r \in UserFns =>
                    patchers'[Len(patchers')].replacement_function.o
                        = ExpectedOriginal(ns, client_target, client_member)
              /\ r \in PlainValues =>
                    patchers'[Len(patchers')].original_function
                        = ExpectedOriginal(ns, client_target, client_member)

\* C6: after, patch and modify_return_value, in either mode, take the original
\* from the Target's own namespace if the name is there, else from the first
\* ancestor in method-resolution order that defines it; when none defines it
\* the call raises AttributeError and changes no namespace and creates nothing.
C6_ResolutionOrNotFound ==
    [][\A r \in Replacements :
          /\ C6_Step(after(client_target, client_member, r), r)
          /\ C6_Step(patch(client_target, client_member, r), r)
          /\ C6_Step(modify_return_value(client_target, client_member, r), r)
      ]_vars

\* C6 witness: patch(Derived, 'new_fn', ...) has raised AttributeError and
\* every namespace is as it was.
C6_Witness ==
    /\ client_target = "Derived"
    /\ client_member = "new_fn"
    /\ last.op = "patch"
    /\ last.exc = "AttributeError"
    /\ ns = InitNs

\* the client patches, through Derived, a member defined only on an ancestor
InheritedOnly ==
    /\ client_target = "Derived"
    /\ InitNs["Derived"][client_member] = Absent
    /\ getattr(InitNs, "Derived", client_member) # Absent

\* every step writes Derived's own namespace only, an install leaves an own
\* entry on Derived, and a restore leaves there the original it captured
WritesOnlyDescendant ==
    /\ \A o \in Objects \ {"Derived"} : ns'[o] = ns[o]
    /\ Behaviour(ns', "Base", client_member) = Behaviour(ns, "Base", client_member)
    /\ Behaviour(ns', "Sibling", client_member)
          = Behaviour(ns, "Sibling", client_member)
    /\ Len(patchers') = Len(patchers) + 1
          => ns'["Derived"][client_member]
                = patchers'[Len(patchers')].replacement_function
    /\ \A i \in DOMAIN patchers, e \in BlockExits :
          TemporaryPatcher__exit__(i, e)
          => /\ ns'["Derived"][client_member] # Absent
             /\ ns'["Derived"][client_member] = patchers[i].original_function

C8_RestoreIdempotent ==
    [][\A i \in DOMAIN patchers, e \in BlockExits :
          /\ TemporaryPatcher__exit__(i, e)
          /\ last.op = "__exit__"
          /\ last.self = PatcherRef(i)
          => ns' = ns
      ]_vars

\* C8 witness: a Patch Record has been restored twice in a row.
C8_Witness ==
    /\ last.op = "__exit__"
    /\ last.prev_op = "__exit__"
    /\ last.prev_self = last.self

SameSlot(p, q) ==
    p.class_or_instance = q.class_or_instance /\ p.method_name = q.method_name

\* P2 was created on P1's pair while P1's replacement was installed
Stacked ==
    /\ Len(patchers) = 2
    /\ SameSlot(patchers[1], patchers[2])
    /\ patchers[2].original_function = patchers[1].replacement_function

\* C9: a Patch Record P2 created on the pair of P1 while P1's replacement is
\* installed captures that replacement as its original; restoring P2 and then
\* P1 ends with the original that P1 captured installed, and a member that
\* existed before P1 behaving as it did then; restoring P1 and then P2
\* ends with P1's replacement installed, which, being a composition, is not
\* the original that P1 captured.
C9_NestedRestoreOrder ==
    [][/\ /\ Len(patchers) = 1
          /\ Len(patchers') = 2
          /\ SameSlot(patchers'[1], patchers'[2])
          /\ ns[patchers[1].class_or_instance][patchers[1].method_name]
                = patchers[1].replacement_function
          => patchers'[2].original_function = patchers[1].replacement_function
       /\ \A e \in BlockExits :
            /\ Stacked
            /\ last.op = "__exit__"
            /\ last.self = PatcherRef(2)
            /\ TemporaryPatcher__exit__(1, e)
            => /\ ns'[patchers[1].class_or_instance][patchers[1].method_name]
                     = patchers[1].original_function
               /\ patchers[1].pre # Absent
                     /\ MemberNow(ns) = patchers[1].replacement_function
                     => Behaviour(ns', client_target, client_member)
                           = patchers[1].pre
       /\ \A e \in BlockExits :
            /\ Stacked
            /\ last.op = "__exit__"
            /\ last.self = PatcherRef(1)
            /\ TemporaryPatcher__exit__(2, e)
            => /\ ns'[patchers[1].class_or_instance][patchers[1].method_name]
                     = patchers[1].replacement_function
               /\ patchers[1].replacement_function.tag = "curried"
                     => MemberNow(ns') # patchers[1].original_function
      ]_vars

\* C9 witness: P1 then P2 were restored, and the member is P1's replacement.
C9_Witness ==
    /\ Stacked
    /\ last.op = "__exit__"
    /\ last.self = PatcherRef(2)
    /\ last.prev_op = "__exit__"
    /\ last.prev_self = PatcherRef(1)
    /\ patchers[1].replacement_function.tag = "curried"
    /\ MemberNow(ns) = patchers[1].replacement_function
    /\ MemberNow(ns) # patchers[1].original_function

\* what the slot a thread patches holds
Slot(nsx, t) == nsx[t.class_or_instance][t.method_name]

AllDone == \A i \in ThreadIds : threads[i].pc = "done"

\* C10: nothing orders the steps of two threads that patch the same pair:
\* the slot holds whatever was written last.  A thread whose scope is open
\* finds its replacement in the slot unless another thread has written a
\* different value over it, and once both scopes have been left the slot
\* holds the original captured by the thread that left last, whatever that
\* thread had captured.
C10_LastWriteWins ==
    /\ \A i \in ThreadIds :
          InScope(threads[i]) /\ ~threads[i].overwritten
          => Slot(ns, threads[i]) = threads[i].replacement_function
    /\ AllDone => Slot(ns, threads[last.self.id])
                     = threads[last.self.id].original_function

\* C10 witness: both scopes have been left, the replacement of one thread was
\* overwritten while its scope was open, and the member is the replacement of
\* a thread and not what it was before the two patches.
C10_Witness ==
    /\ AllDone
    /\ \E i \in ThreadIds : threads[i].overwritten
    /\ \E i \in ThreadIds : MemberNow(ns) = threads[i].replacement_function
    /\ MemberNow(ns) # MemberNow(InitNs)

\* C11: a Patch Record installs its replacement in the step that constructs
\* it, so the replacement is the Target's member before any __enter__;
\* __enter__ and calls of the member write no namespace, so the replacement
\* stays until an __exit__ or another patch writes the slot; and an __enter__
\* of a Patch Record directly after its __exit__ leaves the slot holding the
\* original, not the replacement.
C11_InstalledOnceAtConstruction ==
    [][/\ Len(patchers') = Len(patchers) + 1
          => /\ Slot(ns', patchers'[Len(patchers')])
                   = patchers'[Len(patchers')].replacement_function
             /\ last'.op \notin {"__enter__", "__exit__"}
       /\ \A i \in DOMAIN patchers :
            TemporaryPatcher__enter__(i)
            => /\ ns' = ns
               /\ /\ last.op = "__exit__"
                  /\ last.self = PatcherRef(i)
                  => Slot(ns', patchers[i]) = patchers[i].original_function
       /\ \A a \in CallArgs :
            call_member(client_target, client_member, a) => ns' = ns
      ]_vars

\* C11 witness: a Patch Record made by patch(m, 'compute', inc_orig) was left
\* and entered again, and m.compute is compute, not the composition.
C11_Witness ==
    /\ client_target = "m"
    /\ client_member = "compute"
    /\ Len(patchers) = 1
    /\ patchers[1].replacement_function
          = curry("wrapper_with_patch", Fn("inc_orig"), Fn("compute"))
    /\ last.op = "__enter__"
    /\ last.self = PatcherRef(1)
    /\ last.prev_op = "__exit__"
    /\ last.prev_self = PatcherRef(1)
    /\ MemberNow(ns) = Fn("compute")

====
